---- MODULE Spec2Model ----
(***************************************************************************)
(* Model of src/app.py: the futures-versus-spot gap dashboard.             *)
(*                                                                         *)
(* The script is run top to bottom by the hosting framework on every       *)
(* rerun.  What survives a rerun is the session state, which holds the     *)
(* live-quote cache (gold_spot_cache, gold_spot_timestamp).  One run       *)
(* walks the asset registry, appends one row per asset (and a chart for    *)
(* the assets that got both legs), displays the table and the charts,      *)
(* sleeps and asks for a rerun.                                            *)
(*                                                                         *)
(* Prices are integers (the model's price resolution).  A table cell is    *)
(* the pair of a format and the value it renders, or a literal text.       *)
(* The wall clock is read on a grid of Grain seconds.                      *)
(***************************************************************************)
EXTENDS Integers, Sequences, FiniteSets, TLC

VARIABLES
    gold_spot_cache,      \* st.session_state.gold_spot_cache
    gold_spot_timestamp,  \* st.session_state.gold_spot_timestamp
    now,                  \* what time.time() returns
    phase,                \* "Fetching" (lines 70-141) or "Idle" (line 144)
    idx,                  \* position of the for loop of line 73 in the registry
    rows,                 \* the list rows of line 70
    charts,               \* the list charts of line 71
    warnings,             \* messages put on the page in this run (st.error, st.warning)
    log,                  \* history: what each fetch of this run returned
    lastCall,             \* history: the latest call of get_gold_spot_price
    prevCall,             \* history: start time and result of the call before it
    lastStore             \* history: start time and price of the latest call that stored a quote

vars == <<gold_spot_cache, gold_spot_timestamp, now, phase, idx, rows, charts,
          warnings, log, lastCall, prevCall, lastStore>>

cycleVars == <<phase, idx, rows, charts, warnings, log>>
callVars == <<lastCall, prevCall, lastStore>>

-----------------------------------------------------------------------------
(* Bounds of the model *)

MaxPrice == 2      \* prices are 1..MaxPrice
MaxLen == 2        \* a series has at most MaxLen closes
MaxTicks == 2      \* the clock is followed for MaxTicks grid steps
Grain == 5         \* seconds between two readings of the clock
Epoch == 20        \* the clock's value when the session starts

(* Program constants *)

TTL == 10          \* seconds a cached quote is served without a request
None == -1         \* Python's None in the cache and as a returned price
InitialTimestamp == 0

Prices == 1..MaxPrice
Horizon == Epoch + MaxTicks * Grain
Delays == {0, Grain}   \* seconds the HTTP request takes

-----------------------------------------------------------------------------
(* The quote provider's answer to the request of line 30.                   *)
(*   transport: "error" when requests.get or response.json() raises         *)
(*   code:      the 'code' member: absent, 403, or another number           *)
(*   message:   the 'message' member: absent, a text holding the rate-limit *)
(*              sentence, another text, or a value that is not a text       *)
(*   price:     the 'price' member: absent, a number (priceVal), or a text  *)
(*              float() cannot parse                                        *)

Codes == {"absent", "403", "other"}
Messages == {"absent", "ratelimit", "other", "nontext"}
PriceFields == {"absent", "number", "unparsable"}

TransportFailure ==
    [transport |-> "error", code |-> "absent", message |-> "absent",
     price |-> "absent", priceVal |-> 1]

Responses ==
    {TransportFailure} \cup
    {r \in [transport : {"ok"}, code : Codes, message : Messages,
            price : PriceFields, priceVal : Prices] :
        r.price # "number" => r.priceVal = 1}

(* Lines 23-24: the cached value is served when there is one and it is      *)
(* less than TTL seconds old.                                               *)
IsFreshHalf(cache, timestamp, current_time) ==
    cache # None /\ 2 * (current_time - timestamp) < TTL

IsFreshInclusive(cache, timestamp, current_time) ==
    cache # None /\ current_time - timestamp <= TTL

IsFresh(cache, timestamp, current_time) ==
    cache # None /\ current_time - timestamp < TTL

(* Lines 28-51: which exit of the try block a response takes.               *)
(*   "auth"      line 36      "silent"  line 41 without the warning         *)
(*   "message"   line 41 after the warning of line 40                       *)
(*   "store"     line 47      "noprice" line 48                             *)
(*   "exception" line 51: requests.get / json() raised, `in` was applied    *)
(*               to a message that is not a text, or float() raised         *)
FetchOutcomePriceFirst(resp) ==
    IF resp.transport = "error" THEN "exception"
    ELSE IF resp.price = "number" THEN "store"
    ELSE IF resp.code = "403" THEN "auth"
    ELSE IF resp.message = "nontext" THEN "exception"
    ELSE IF resp.message = "ratelimit" THEN "silent"
    ELSE IF resp.message = "other" THEN "message"
    ELSE IF resp.price = "unparsable" THEN "exception"
    ELSE "noprice"

FetchOutcome(resp) ==
    IF resp.transport = "error" THEN "exception"
    ELSE IF resp.code = "403" THEN "auth"
    ELSE IF resp.message = "nontext" THEN "exception"
    ELSE IF resp.message = "ratelimit" THEN "silent"
    ELSE IF resp.message = "other" THEN "message"
    ELSE IF resp.price = "number" THEN "store"
    ELSE IF resp.price = "unparsable" THEN "exception"
    ELSE "noprice"

(* Lines 35, 40, 50: the message an exit puts on the page.                  *)
QuoteWarnings(outcome) ==
    IF outcome = "auth" THEN {"API Key Error"}
    ELSE IF outcome = "message" THEN {"API Message"}
    ELSE IF outcome = "exception" THEN {"Gold API Error"}
    ELSE {}

(* Line 46: the timestamp stored with a new quote is current_time, read at  *)
(* line 20 before the request; done_time is the clock when the answer is in *)
StoredTimestampAfter(current_time, done_time) == done_time

StoredTimestamp(current_time, done_time) == current_time

(* Lines 18-51.  The result: the returned price, the session state after    *)
(* the call, the messages shown, whether a request was sent and which exit  *)
(* was taken.                                                               *)
get_gold_spot_price(cache, timestamp, current_time, done_time, resp) ==
    IF IsFresh(cache, timestamp, current_time)
    THEN [ret |-> cache, cache |-> cache, timestamp |-> timestamp,
          warn |-> {}, fetched |-> FALSE, exit |-> "hit"]
    ELSE LET outcome == FetchOutcome(resp) IN
         IF outcome = "store"
         THEN [ret |-> resp.priceVal, cache |-> resp.priceVal,
               timestamp |-> StoredTimestamp(current_time, done_time),
               warn |-> {}, fetched |-> TRUE, exit |-> outcome]
         ELSE [ret |-> cache, cache |-> cache, timestamp |-> timestamp,
               warn |-> QuoteWarnings(outcome), fetched |-> TRUE,
               exit |-> outcome]

-----------------------------------------------------------------------------
(* History of the calls *)

NoStore == [made |-> FALSE, t |-> 0, price |-> None]

NoCall ==
    [made |-> FALSE, t |-> 0, done |-> 0, resp |-> TransportFailure,
     ret |-> None, fetched |-> FALSE, exit |-> "hit", warn |-> {},
     cacheBefore |-> None, timestampBefore |-> 0,
     cacheAfter |-> None, timestampAfter |-> 0, storeBefore |-> NoStore]

NoPrev == [made |-> FALSE, t |-> 0, ret |-> None, exit |-> "hit"]

CallRecord(q, resp, d) ==
    [made |-> TRUE, t |-> now, done |-> now + d,
     resp |-> IF q.fetched THEN resp ELSE TransportFailure,
     ret |-> q.ret, fetched |-> q.fetched, exit |-> q.exit, warn |-> q.warn,
     cacheBefore |-> gold_spot_cache, timestampBefore |-> gold_spot_timestamp,
     cacheAfter |-> q.cache, timestampAfter |-> q.timestamp,
     storeBefore |-> lastStore]

-----------------------------------------------------------------------------
(* Lines 14-16 and 70-71 *)
Init ==
    /\ gold_spot_cache = None
    /\ gold_spot_timestamp = InitialTimestamp
    /\ now = Epoch
    /\ phase = "Fetching"
    /\ idx = 1
    /\ rows = <<>>
    /\ charts = <<>>
    /\ warnings = {}
    /\ log = <<>>
    /\ lastCall = NoCall
    /\ prevCall = NoPrev
    /\ lastStore = NoStore

(* Time passes between two calls. *)
Tick ==
    /\ now + Grain <= Horizon
    /\ now' = now + Grain
    /\ UNCHANGED <<gold_spot_cache, gold_spot_timestamp, cycleVars, callVars>>

(* One call of get_gold_spot_price: the request, when one is sent, is       *)
(* answered by resp after d seconds.                                        *)
Call ==
    \E resp \in Responses, d \in Delays :
        LET q == get_gold_spot_price(gold_spot_cache, gold_spot_timestamp,
                                     now, now + d, resp)
            took == IF q.fetched THEN d ELSE 0
        IN  /\ now + took <= Horizon
            /\ gold_spot_cache' = q.cache
            /\ gold_spot_timestamp' = q.timestamp
            /\ now' = now + took
            /\ prevCall' = [made |-> lastCall.made, t |-> lastCall.t,
                            ret |-> lastCall.ret, exit |-> lastCall.exit]
            /\ lastCall' = CallRecord(q, resp, took)
            /\ lastStore' = IF q.exit = "store"
                            THEN [made |-> TRUE, t |-> now, price |-> q.ret]
                            ELSE lastStore
            /\ UNCHANGED cycleVars

CacheNext == Tick \/ Call

CacheSpec == Init /\ [][CacheNext]_vars

-----------------------------------------------------------------------------
(* The reconciliation cycle *)

(* Lines 56-64: the registry.  The model follows its first entries: the     *)
(* live-quote asset and two of the six assets with a historical spot        *)
(* proxy, which the loop treats alike.                                      *)
data ==
    << [name |-> "Gold",   fut_symbol |-> "GC=F", spot_symbol |-> "API",  multiplier |-> 1],
       [name |-> "Silver", fut_symbol |-> "SI=F", spot_symbol |-> "SLV",  multiplier |-> 1],
       [name |-> "NAS100", fut_symbol |-> "NQ=F", spot_symbol |-> "^NDX", multiplier |-> 1] >>

(* A series of closes: points (t, close) in time order.  Ramp(p) rises by   *)
(* one a day to the close p and holds the last MaxLen days of that rise.    *)
Ramp(p) ==
    LET n == IF p < MaxLen THEN p ELSE MaxLen
    IN  [i \in 1..n |-> [t |-> i, close |-> p - n + i]]

SeriesSet == {<< >>} \cup {Ramp(p) : p \in Prices}

(* What yf.Ticker(symbol).history(period="5d")["Close"] does: it raises, or *)
(* it returns a series, which may be empty.                                 *)
HistoryResults ==
    {[threw |-> TRUE, series |-> << >>]} \cup
    {[threw |-> FALSE, series |-> s] : s \in SeriesSet}

(* Table cells: a literal text, f"${v:,.2f}" and f"{v:+.2f}". *)
Text(s) == [fmt |-> "text", text |-> s, val |-> 0]
Usd(v) == [fmt |-> "usd", text |-> "", val |-> v]
Signed(v) == [fmt |-> "signed", text |-> "", val |-> v]

(* Lines 80 and 109 *)
NoDataRow(name) ==
    [name |-> name, fut |-> Text("N/A"), spot |-> Text("N/A"), gap |-> Text("N/A")]

(* Line 132 *)
ErrorRowAsNoData(name) ==
    [name |-> name, fut |-> Text("N/A"), spot |-> Text("N/A"), gap |-> Text("N/A")]

ErrorRow(name) ==
    [name |-> name, fut |-> Text("ERROR"), spot |-> Text("ERROR"), gap |-> Text("ERROR")]

(* Line 133 *)
ErrorWarning(name) == [msg |-> "Error fetching data", about |-> name]

(* Line 86 *)
ApiErrorRow(name, f_now) ==
    [name |-> name, fut |-> Usd(f_now), spot |-> Text("API Error"), gap |-> Text("N/A")]

(* Lines 92 and 118 *)
GapReversed(f_now, s_now) == s_now - f_now

Gap(f_now, s_now) == f_now - s_now

(* Lines 94 and 120 *)
ValueRow(name, f_now, s_now) ==
    [name |-> name, fut |-> Usd(f_now), spot |-> Usd(s_now),
     gap |-> Signed(Gap(f_now, s_now))]

(* series.iloc[-1] of a series that is not empty *)
ILocLast(series) == series[Len(series)].close

(* Line 97: the live price at every timestamp of the futures series *)
FlatSpot(futures, gold_spot) ==
    [i \in 1..Len(futures) |-> [t |-> futures[i].t, close |-> gold_spot]]

(* Line 113 *)
Multiply(spot_raw, multiplier) ==
    [i \in 1..Len(spot_raw) |->
        [t |-> spot_raw[i].t, close |-> spot_raw[i].close * multiplier]]

(* Lines 98-102 and 123-128 *)
Figure(name, futures, spot, spot_label) ==
    [name |-> name, futures |-> futures, spot |-> spot, spot_label |-> spot_label]

(* Line 108 *)
NoDataBothEmpty(futures, spot_raw) == futures = << >> /\ spot_raw = << >>

NoData(futures, spot_raw) == futures = << >> \/ spot_raw = << >>

(* Line 85: no chart is drawn for a row without a live price *)
ApiErrorChartsDrawn(name, futures) ==
    << Figure(name, futures, << >>, "Real Spot (Live)") >>

ApiErrorCharts(name, futures) == << >>

(* What an iteration of the loop found: history *)
LogEntry(fut, spot, futures, spot_raw, quote, quoteRet) ==
    [fut |-> fut, spot |-> spot, futures |-> futures, spot_raw |-> spot_raw,
     quote |-> quote, quoteRet |-> quoteRet]

(* Lines 130-133: the except clause *)
CaughtSilently(asset, fut, spot, futures, spot_raw) ==
    [rows |-> << >>, chart |-> << >>, warn |-> {}, called |-> FALSE,
     log |-> LogEntry(fut, spot, futures, spot_raw, "none", None)]

Caught(asset, fut, spot, futures, spot_raw) ==
    [rows |-> << ErrorRow(asset.name) >>, chart |-> << >>,
     warn |-> {ErrorWarning(asset.name)}, called |-> FALSE,
     log |-> LogEntry(fut, spot, futures, spot_raw, "none", None)]

(* Lines 78-102: the asset whose spot leg is the live quote.  q is what     *)
(* get_gold_spot_price does when it is called here.                         *)
LiveBranch(asset, futures, q) ==
    IF futures = << >>
    THEN [rows |-> << NoDataRow(asset.name) >>, chart |-> << >>, warn |-> {},
          called |-> FALSE,
          log |-> LogEntry("empty", "none", futures, << >>, "none", None)]
    ELSE LET shown == {[msg |-> w, about |-> ""] : w \in q.warn} IN
         IF q.ret = None
         THEN [rows |-> << ApiErrorRow(asset.name, ILocLast(futures)) >>,
               chart |-> ApiErrorCharts(asset.name, futures),
               warn |-> shown, called |-> TRUE,
               log |-> LogEntry("data", "none", futures, << >>, q.exit, q.ret)]
         ELSE [rows |-> << ValueRow(asset.name, ILocLast(futures), q.ret) >>,
               chart |-> << Figure(asset.name, futures,
                                   FlatSpot(futures, q.ret), "Real Spot (Live)") >>,
               warn |-> shown, called |-> TRUE,
               log |-> LogEntry("data", "none", futures, << >>, q.exit, q.ret)]

(* Lines 104-128: the assets with a historical spot proxy.  iloc[-1] of an  *)
(* empty series raises IndexError, which the except clause catches.         *)
HistoricalBranch(asset, futures, spotR) ==
    IF spotR.threw
    THEN Caught(asset, IF futures = << >> THEN "empty" ELSE "data", "throw",
                futures, << >>)
    ELSE LET spot_raw == spotR.series
             spot == Multiply(spot_raw, asset.multiplier)
             fk == IF futures = << >> THEN "empty" ELSE "data"
             sk == IF spot_raw = << >> THEN "empty" ELSE "data"
         IN  IF NoData(futures, spot_raw)
             THEN [rows |-> << NoDataRow(asset.name) >>, chart |-> << >>, warn |-> {},
                   called |-> FALSE,
                   log |-> LogEntry(fk, sk, futures, spot_raw, "none", None)]
             ELSE IF futures = << >> \/ spot = << >>
             THEN Caught(asset, fk, sk, futures, spot_raw)
             ELSE [rows |-> << ValueRow(asset.name, ILocLast(futures), ILocLast(spot)) >>,
                   chart |-> << Figure(asset.name, futures, spot, "Spot") >>,
                   warn |-> {}, called |-> FALSE,
                   log |-> LogEntry(fk, sk, futures, spot_raw, "none", None)]

(* Lines 74-133: one iteration of the loop *)
ReconcileAsset(asset, futR, spotR, q) ==
    IF futR.threw
    THEN Caught(asset, "throw", "none", << >>, << >>)
    ELSE IF asset.spot_symbol = "API"
    THEN LiveBranch(asset, futR.series, q)
    ELSE HistoricalBranch(asset, futR.series, spotR)

(* The fetches an iteration makes: the spot history is asked for when the   *)
(* asset has a historical proxy and the futures fetch returned; the quote   *)
(* is asked for when the asset is the live one and its futures series has   *)
(* data; a request is sent when the cached quote is not fresh.              *)
NotAsked == [threw |-> FALSE, series |-> << >>]

SpotResults(asset, futR) ==
    IF futR.threw \/ asset.spot_symbol = "API" THEN {NotAsked} ELSE HistoryResults

QuoteAnswers(asset, futR) ==
    IF asset.spot_symbol = "API" /\ ~futR.threw /\ futR.series # << >>
          /\ ~IsFresh(gold_spot_cache, gold_spot_timestamp, now)
    THEN Responses \X Delays
    ELSE {<<TransportFailure, 0>>}

(* Lines 73-133: the loop body for the asset at idx, with the answers of    *)
(* the data sources: the futures history, the spot history, and the quote   *)
(* provider's answer after some seconds.                                    *)
Reconcile ==
    /\ phase = "Fetching"
    /\ idx <= Len(data)
    /\ \E futR \in HistoryResults :
       \E spotR \in SpotResults(data[idx], futR) :
       \E a \in QuoteAnswers(data[idx], futR) :
          LET q == get_gold_spot_price(gold_spot_cache, gold_spot_timestamp,
                                       now, now + a[2], a[1])
              r == ReconcileAsset(data[idx], futR, spotR, q)
              took == IF r.called /\ q.fetched THEN a[2] ELSE 0
          IN  /\ now + took <= Horizon
              /\ rows' = rows \o r.rows
              /\ charts' = charts \o r.chart
              /\ warnings' = warnings \cup r.warn
              /\ log' = Append(log, r.log)
              /\ idx' = idx + 1
              /\ gold_spot_cache' = IF r.called THEN q.cache ELSE gold_spot_cache
              /\ gold_spot_timestamp' =
                     IF r.called THEN q.timestamp ELSE gold_spot_timestamp
              /\ now' = now + took
              /\ UNCHANGED <<phase, callVars>>

(* Lines 136-144: the table and the charts are displayed, then the script   *)
(* sleeps.                                                                  *)
Display ==
    /\ phase = "Fetching"
    /\ idx = Len(data) + 1
    /\ phase' = "Idle"
    /\ UNCHANGED <<gold_spot_cache, gold_spot_timestamp, now, idx, rows, charts,
                   warnings, log, callVars>>

(* Lines 144-145, then lines 70-71 of the next run: the sleep ends, the     *)
(* script is run again, the session state is kept.                          *)
SleepTimes == {k * Grain : k \in 0..MaxTicks}

RerunNever ==
    /\ phase = "Idle"
    /\ phase' = "Stopped"
    /\ UNCHANGED <<gold_spot_cache, gold_spot_timestamp, now, idx, rows, charts,
                   warnings, log, callVars>>

Rerun ==
    /\ phase = "Idle"
    /\ \E slept \in SleepTimes :
          /\ now + slept <= Horizon
          /\ now' = now + slept
    /\ phase' = "Fetching"
    /\ idx' = 1
    /\ rows' = << >>
    /\ charts' = << >>
    /\ warnings' = {}
    /\ log' = << >>
    /\ UNCHANGED <<gold_spot_cache, gold_spot_timestamp, callVars>>

Next == Reconcile \/ Display \/ Rerun

Spec == Init /\ [][Next]_vars

(* The script is the only thread: a step of it that can be taken is taken.  *)
FairSpec == Spec /\ WF_vars(Reconcile \/ Display \/ Rerun)

-----------------------------------------------------------------------------
(* Properties of the reconciliation cycle, over Spec *)

(* The variant of ReconciledRow a row of the table shows. *)
Status(row) ==
    IF row.fut = Text("ERROR") /\ row.spot = Text("ERROR") /\ row.gap = Text("ERROR")
    THEN "Errored"
    ELSE IF row.fut = Text("N/A") /\ row.spot = Text("N/A") /\ row.gap = Text("N/A")
    THEN "Unavailable"
    ELSE IF row.fut.fmt = "usd" /\ row.spot = Text("API Error") /\ row.gap = Text("N/A")
    THEN "Partial"
    ELSE IF row.fut.fmt = "usd" /\ row.spot.fmt = "usd" /\ row.gap.fmt = "signed"
    THEN "Valid"
    ELSE "Other"

IsLive(i) == data[i].spot_symbol = "API"

Done == 1..Len(log)

(* A fetch of the historical source made for asset i raised. *)
HistoryThrew(i) == log[i].fut = "throw" \/ log[i].spot = "throw"

(* A series fetched for asset i is empty. *)
SomeLegEmpty(i) == log[i].fut = "empty" \/ log[i].spot = "empty"

(* The request for the live quote made for asset i failed in transport or   *)
(* its answer could not be read.                                            *)
QuoteThrew(i) == log[i].quote = "exception"

(* C1 as stated: an asset with an empty futures or spot series has an       *)
(* Unavailable row, also when the fetch of the other leg raised.            *)
C1_EmptyLegIsUnavailable ==
    \A i \in Done :
        SomeLegEmpty(i) => (Len(rows) >= i /\ Status(rows[i]) = "Unavailable")

(* C1 amended: when no fetch made for the asset raised, an empty futures or *)
(* spot series gives an Unavailable row; an empty futures series followed   *)
(* by a spot fetch that raises gives an Errored row.                        *)
C1_EmptyLegWithoutThrowIsUnavailable ==
    \A i \in Done :
        /\ (SomeLegEmpty(i) /\ ~HistoryThrew(i))
              => (Len(rows) >= i /\ Status(rows[i]) = "Unavailable")
        /\ (log[i].fut = "empty" /\ log[i].spot = "throw")
              => (Len(rows) >= i /\ Status(rows[i]) = "Errored")

C1_Witness ==
    /\ Len(log) = Len(data) /\ Len(rows) = Len(data)
    /\ log[1].fut = "empty" /\ Status(rows[1]) = "Unavailable"
    /\ log[2].fut = "data" /\ log[2].spot = "empty"
    /\ Status(rows[2]) = "Unavailable"
    /\ log[3].fut = "empty" /\ log[3].spot = "data"
    /\ Status(rows[3]) = "Unavailable"

(* The status the fetches made for asset i dictate. *)
OwnStatus(i) ==
    IF HistoryThrew(i) THEN "Errored"
    ELSE IF SomeLegEmpty(i) THEN "Unavailable"
    ELSE IF IsLive(i) /\ log[i].quoteRet = None THEN "Partial"
    ELSE "Valid"

InRegistryOrder == \A i \in 1..Len(rows) : rows[i].name = data[i].name

(* C2 as stated: a run ends with one row per registry entry in registry     *)
(* order, and a fetch that raised for an asset, the live-quote fetch        *)
(* included, makes that asset's row Errored.                                *)
C2_ThrownFetchIsErroredRow ==
    /\ phase = "Idle" => Len(rows) = Len(data)
    /\ Len(rows) = Len(log)
    /\ InRegistryOrder
    /\ \A i \in Done :
          (HistoryThrew(i) \/ QuoteThrew(i)) => Status(rows[i]) = "Errored"

(* C2 amended: a run ends with one row per registry entry in registry       *)
(* order; the row of an asset is Errored exactly when a fetch of the        *)
(* historical source made for that asset raised; a live-quote fetch that    *)
(* raised or failed leaves the row Valid or Partial; every row has the      *)
(* status its own fetches dictate.                                          *)
C2_OneRowPerAssetIsolated ==
    /\ phase = "Idle" => Len(rows) = Len(data)
    /\ Len(rows) = Len(log)
    /\ Len(rows) = idx - 1
    /\ InRegistryOrder
    /\ \A i \in Done :
          /\ Status(rows[i]) = "Errored" <=> HistoryThrew(i)
          /\ log[i].quote \notin {"none", "hit", "store"}
                => Status(rows[i]) \in {"Valid", "Partial"}
          /\ Status(rows[i]) = OwnStatus(i)

C2_Witness ==
    /\ phase = "Idle"
    /\ Len(rows) = Len(data)
    /\ log[1].fut = "throw" /\ Status(rows[1]) = "Errored"
    /\ log[2].spot = "throw" /\ Status(rows[2]) = "Errored"
    /\ log[3].spot = "data" /\ Status(rows[3]) = "Valid"

LastClose(series) == series[Len(series)].close

(* C6: in a Valid row the gap is the futures value less the spot value; the *)
(* futures value is the last close of the futures series; the spot value is *)
(* the multiplier times the last close of the spot series, or the price the *)
(* quote cache returned in this run for the live asset.                     *)
C6_GapIsFuturesLessSpot ==
    \A i \in 1..Len(rows) :
        Status(rows[i]) = "Valid" =>
            LET futuresNow == LastClose(log[i].futures)
                spotNow == IF IsLive(i) THEN log[i].quoteRet
                           ELSE data[i].multiplier * LastClose(log[i].spot_raw)
            IN  /\ rows[i].fut = Usd(futuresNow)
                /\ rows[i].spot = Usd(spotNow)
                /\ rows[i].gap = Signed(futuresNow - spotNow)

C6_Witness ==
    /\ Len(rows) = Len(data)
    /\ Status(rows[1]) = "Valid" /\ log[1].quote = "exception"
    /\ rows[1].gap.val > 0
    /\ Status(rows[2]) = "Valid" /\ rows[2].gap.val < 0
    /\ Status(rows[3]) = "Valid" /\ rows[3].gap.val = 0

HasStatus(row, set) == Status(row) \in set

ChartedRows(set) == SelectSeq(rows, LAMBDA row : HasStatus(row, set))

Names(seq) == [k \in 1..Len(seq) |-> seq[k].name]

(* C7 as stated: the charts are those of the assets whose row is Valid or   *)
(* Partial, in registry order.                                              *)
C7_ChartForValidOrPartial ==
    phase = "Idle" => Names(charts) = Names(ChartedRows({"Valid", "Partial"}))

(* C7 amended: the charts are those of the assets whose row is Valid, in    *)
(* registry order; a Partial, Unavailable or Errored row has no chart; the  *)
(* chart of the live asset holds the futures series and a spot series with  *)
(* the live price at every timestamp of the futures series.                 *)
C7_ChartForValidOnly ==
    /\ Names(charts) = Names(ChartedRows({"Valid"}))
    /\ \A k \in 1..Len(charts) :
          \A i \in Done :
             (data[i].name = charts[k].name) =>
                /\ charts[k].futures = log[i].futures
                /\ IsLive(i) =>
                      /\ Len(charts[k].spot) = Len(log[i].futures)
                      /\ \A j \in 1..Len(log[i].futures) :
                            /\ charts[k].spot[j].t = log[i].futures[j].t
                            /\ charts[k].spot[j].close = log[i].quoteRet

C7_Witness ==
    /\ phase = "Idle"
    /\ Status(rows[1]) = "Valid" /\ Len(log[1].futures) = MaxLen
    /\ Status(rows[2]) = "Errored"
    /\ Status(rows[3]) = "Valid"
    /\ Len(charts) = 2
    /\ charts[1].name = "Gold" /\ charts[2].name = "NAS100"
    /\ Len(charts[1].spot) = MaxLen

(* C8 as stated: a fetch that fails in transport, of the historical source  *)
(* or of the live quote, shows a warning and makes the asset's row Errored. *)
C8_TransportFailureIsErrorRow ==
    \A i \in 1..Len(rows) :
        (HistoryThrew(i) \/ QuoteThrew(i))
            => (warnings # {} /\ Status(rows[i]) = "Errored")

(* C8 amended: a fetch of the historical source that raises shows the       *)
(* warning of the asset and makes its row Errored; a live-quote request     *)
(* that fails in transport, or whose answer cannot be read, shows the quote *)
(* error and leaves the row Valid with the cached price, or Partial when    *)
(* nothing is cached.                                                       *)
C8_TransportFailureRows ==
    \A i \in 1..Len(rows) :
        /\ HistoryThrew(i)
              => /\ ErrorWarning(data[i].name) \in warnings
                 /\ Status(rows[i]) = "Errored"
        /\ QuoteThrew(i)
              => /\ [msg |-> "Gold API Error", about |-> ""] \in warnings
                 /\ Status(rows[i]) =
                        IF log[i].quoteRet = None THEN "Partial" ELSE "Valid"

C8_Witness ==
    /\ Len(rows) = Len(data)
    /\ QuoteThrew(1) /\ Status(rows[1]) = "Valid"
    /\ log[2].fut = "throw" /\ Status(rows[2]) = "Errored"
    /\ log[3].spot = "throw" /\ Status(rows[3]) = "Errored"
    /\ Cardinality(warnings) = 3

(* C9: the driver is Fetching or Idle; whatever the fetches return, a run   *)
(* reaches Idle and Idle is followed by the next run; a step is always      *)
(* possible.                                                                *)
C9_DriverAlternates ==
    /\ [](phase \in {"Fetching", "Idle"})
    /\ [](ENABLED (Reconcile \/ Display \/ Rerun))
    /\ (phase = "Fetching") ~> (phase = "Idle")
    /\ (phase = "Idle") ~> (phase = "Fetching")

C9_Witness ==
    /\ phase = "Idle"
    /\ Len(rows) = Len(data)
    /\ log[1].quote = "exception" /\ log[1].quoteRet = None
    /\ log[2].fut = "throw"
    /\ log[3].spot = "throw"

-----------------------------------------------------------------------------
(* Properties of the Live Quote Cache, over CacheSpec *)

(* The fetch of a call failed: the provider's answer is one of the failures *)
(* the cache falls back on.                                                 *)
FetchFailed(resp) ==
    \/ resp.transport = "error"
    \/ resp.code = "403"
    \/ resp.message # "absent"
    \/ resp.price # "number"

(* C3 as stated: of any two consecutive calls less than TTL seconds apart,  *)
(* the second sends no request and returns the price the first returned,    *)
(* whatever the first call did.                                             *)
C3_AnyTwoCallsWithinTTL ==
    (lastCall.made /\ prevCall.made /\ lastCall.t - prevCall.t < TTL)
        => (~lastCall.fetched /\ lastCall.ret = prevCall.ret)

(* C3 amended: a call that starts less than TTL seconds after the start of  *)
(* a call that stored a newly fetched price sends no request and returns    *)
(* that price.                                                              *)
C3_CallWithinTTLOfStore ==
    (lastCall.made /\ lastCall.storeBefore.made
        /\ lastCall.t - lastCall.storeBefore.t < TTL)
        => (~lastCall.fetched /\ lastCall.ret = lastCall.storeBefore.price)

C3_Witness ==
    /\ lastCall.made /\ lastCall.storeBefore.made
    /\ lastCall.t > lastCall.storeBefore.t
    /\ lastCall.t - lastCall.storeBefore.t < TTL
    /\ ~lastCall.fetched
    /\ lastCall.ret = lastCall.storeBefore.price

(* C4: a call made when the cached quote is TTL seconds old or older sends  *)
(* a request; when that fetch fails and there is a cached value, the call   *)
(* returns that value.                                                      *)
C4_StaleCallFetchesAndFallsBack ==
    (lastCall.made /\ lastCall.t - lastCall.timestampBefore >= TTL)
        => /\ lastCall.fetched
           /\ (FetchFailed(lastCall.resp) /\ lastCall.cacheBefore # None)
                  => (lastCall.ret = lastCall.cacheBefore /\ lastCall.ret # None)

C4_Witness ==
    /\ lastCall.made
    /\ lastCall.cacheBefore # None
    /\ lastCall.t - lastCall.timestampBefore = TTL
    /\ lastCall.fetched
    /\ lastCall.resp.price = "unparsable"
    /\ lastCall.ret = lastCall.cacheBefore

(* The cache entry is the one the call found. *)
CacheUntouched(c) ==
    /\ c.cacheAfter = c.cacheBefore
    /\ c.timestampAfter = c.timestampBefore
    /\ c.ret = c.cacheBefore

(* C5 as stated: on a cache miss, code 403 shows the key warning; a message *)
(* holding the rate-limit text shows no warning; any other message shows a  *)
(* warning; in the three cases the prior cached value is returned and the   *)
(* cache is not updated.                                                    *)
C5_WarningPolicyAsStated ==
    (lastCall.made /\ lastCall.fetched /\ lastCall.resp.transport = "ok")
        => /\ lastCall.resp.code = "403"
                => ("API Key Error" \in lastCall.warn /\ CacheUntouched(lastCall))
           /\ lastCall.resp.message = "ratelimit"
                => (lastCall.warn = {} /\ CacheUntouched(lastCall))
           /\ lastCall.resp.message \in {"other", "nontext"}
                => (lastCall.warn # {} /\ CacheUntouched(lastCall))

(* C5 amended: the same, the rate-limit case being that of a response       *)
(* whose code is not 403.                                                   *)
C5_WarningPolicy ==
    (lastCall.made /\ lastCall.fetched /\ lastCall.resp.transport = "ok")
        => /\ lastCall.resp.code = "403"
                => (lastCall.warn = {"API Key Error"} /\ CacheUntouched(lastCall))
           /\ (lastCall.resp.code # "403" /\ lastCall.resp.message = "ratelimit")
                => (lastCall.warn = {} /\ CacheUntouched(lastCall))
           /\ lastCall.resp.message \in {"other", "nontext"}
                => (lastCall.warn # {} /\ CacheUntouched(lastCall))

C5_Witness ==
    /\ lastCall.made /\ lastCall.fetched
    /\ lastCall.resp.code = "other"
    /\ lastCall.resp.message = "ratelimit"
    /\ lastCall.resp.price = "number"
    /\ lastCall.cacheBefore # None
    /\ lastCall.resp.priceVal # lastCall.cacheBefore
    /\ lastCall.warn = {}
    /\ lastCall.ret = lastCall.cacheBefore

(* The answer carries a price and neither code 403 nor a message. *)
PriceOnly(resp) ==
    /\ resp.transport = "ok"
    /\ resp.price # "absent"
    /\ resp.code # "403"
    /\ resp.message = "absent"

(* C10: the cache entry starts as (None, 0); a call changes it only when    *)
(* it fetched an answer that carries a price and neither code 403 nor a     *)
(* message; a hit and a failed fetch leave it as it was, so the call after  *)
(* a failed fetch fetches again; a populated cache stays populated; a       *)
(* stored quote carries the time read at the start of the call.             *)
C10_CacheFrame ==
    /\ ~lastCall.made
          => (gold_spot_cache = None /\ gold_spot_timestamp = InitialTimestamp)
    /\ lastCall.made =>
          /\ gold_spot_cache = lastCall.cacheAfter
          /\ gold_spot_timestamp = lastCall.timestampAfter
          /\ (lastCall.cacheAfter # lastCall.cacheBefore
                \/ lastCall.timestampAfter # lastCall.timestampBefore)
               => (lastCall.fetched /\ PriceOnly(lastCall.resp))
          /\ (~lastCall.fetched \/ FetchFailed(lastCall.resp))
               => /\ lastCall.cacheAfter = lastCall.cacheBefore
                  /\ lastCall.timestampAfter = lastCall.timestampBefore
          /\ lastCall.cacheBefore # None => lastCall.cacheAfter # None
          /\ (lastCall.fetched /\ ~FetchFailed(lastCall.resp))
               => /\ lastCall.cacheAfter = lastCall.resp.priceVal
                  /\ lastCall.timestampAfter = lastCall.t
          /\ (prevCall.made /\ prevCall.exit \notin {"hit", "store"})
               => lastCall.fetched

C10_Witness ==
    /\ lastCall.made /\ lastCall.fetched
    /\ ~FetchFailed(lastCall.resp)
    /\ lastCall.done > lastCall.t
    /\ lastCall.cacheAfter # lastCall.cacheBefore
    /\ gold_spot_timestamp = lastCall.t
    /\ prevCall.made /\ prevCall.exit = "exception"

====
